---- MODULE Spec2Model ----
(***************************************************************************)
(* Model of bw2data/parameters.py: the three parameter stores, the Group   *)
(* registry, the GroupDependency graph and the recalculation engine.       *)
(*                                                                         *)
(* A formula is modelled by the set of names it references; its value is   *)
(* the sum of the amounts of these names (the evaluator, asteval and       *)
(* bw2parameters.ParameterSet, is an external library).  The empty set is  *)
(* the NULL formula.  Every handler is one action; the tables it has       *)
(* written when it raises are kept, unless the handler runs inside         *)
(* `with self.db.atomic()`, which rolls parameters.db back.                *)
(***************************************************************************)
EXTENDS Integers, Sequences, FiniteSets, TLC

VARIABLES
    projectparameter,      \* set of rows [name, formula, amount]
    databaseparameter,     \* set of rows [database, name, formula, amount]
    activityparameter,     \* set of rows [group, database, code, name, formula, amount]
    group_table,           \* group name -> [exists, fresh, order]
    groupdependency,       \* set of rows [group, depends]
    parameterizedexchange, \* set of rows [group, exchange, formula]
    exchange,              \* exchange id -> [output, amount, has_formula] (external ExchangeDataset)
    activity,              \* activity key -> [has, parameters] (external Activity)
    dirty,                 \* databases flagged by databases.set_dirty
    last                   \* the last call and how it ended (return or exception)

vars == <<projectparameter, databaseparameter, activityparameter, group_table,
          groupdependency, parameterizedexchange, exchange, activity, dirty, last>>

----------------------------------------------------------------------------
(* The universe of names                                                   *)

Project == "project"
\* the registered databases (bw2data.databases)
Databases == {"db1", "db2"}
\* every name a Group row can carry
GroupNames == {Project, "db1", "db2", "G", "H", "I"}
\* the largest constant amount a caller supplies
MaxAmount == 2
\* the depth of nested ActivityParameter.recalculate calls the interpreter allows
MaxDepth == 4
ExchangeIds == {"e1"}
Activities == {<<"db1", "c1">>, <<"db1", "c2">>, <<"db2", "c1">>}

NoFormula == {}
NoGlobals == [n \in {} |-> 0]
NoGroup == [exists |-> FALSE, fresh |-> TRUE, order |-> <<>>]

----------------------------------------------------------------------------
(* The storage seen by one handler: the tables plus how the call ends      *)

Storage ==
    [pp |-> projectparameter, dp |-> databaseparameter, ap |-> activityparameter,
     gt |-> group_table, gd |-> groupdependency, pe |-> parameterizedexchange,
     ex |-> exchange, act |-> activity, dirty |-> dirty,
     err |-> "ok", missing |-> {}, done |-> {}]

Raise(s, e) == [s EXCEPT !.err = e]

\* `with db.atomic()`: an exception restores the tables of parameters.db;
\* the exchange records and the dirty flags live elsewhere and are kept
\* variant: nothing is rolled back
atomic_none(before, after) == after

atomic(before, after) ==
    IF after.err = "ok" THEN after
    ELSE [before EXCEPT !.ex = after.ex, !.act = after.act, !.dirty = after.dirty,
                        !.err = after.err, !.missing = after.missing,
                        !.done = after.done]

----------------------------------------------------------------------------
(* Group                                                                   *)

\* variant: only 'project' is purged
purge_order_project(order) ==
    SelectSeq(order, LAMBDA x : x # Project)

purge_order(order) ==
    SelectSeq(order, LAMBDA x : x \notin (Databases \cup {Project}))

Group_save(s, name, fresh, order) ==
    [s EXCEPT !.gt[name] = [exists |-> TRUE, fresh |-> fresh,
                            order |-> purge_order(order)]]

Group_get_or_create(s, name) ==
    IF s.gt[name].exists THEN s ELSE Group_save(s, name, TRUE, <<>>)

expire(s, name) == Group_save(s, name, FALSE, s.gt[name].order)

freshen(s, name) == Group_save(s, name, TRUE, s.gt[name].order)

expired(s, name) == s.gt[name].exists /\ ~s.gt[name].fresh

\* variant: the dependents of the dependents are expired as well
expire_downstream_transitive(s, group) ==
    LET direct == {e.group : e \in {d \in s.gd : d.depends = group}}
        dependents == direct \cup {e.group : e \in {d \in s.gd : d.depends \in direct}}
    IN [s EXCEPT !.gt = [g \in GroupNames |->
            IF s.gt[g].exists /\ g \in dependents
            THEN [s.gt[g] EXCEPT !.fresh = FALSE]
            ELSE s.gt[g]]]

\* variant: no dependent is expired
expire_downstream_none(s, group) == s

expire_downstream(s, group) ==
    LET dependents == {e.group : e \in {d \in s.gd : d.depends = group}}
    IN [s EXCEPT !.gt = [g \in GroupNames |->
            IF s.gt[g].exists /\ g \in dependents
            THEN [s.gt[g] EXCEPT !.fresh = FALSE]
            ELSE s.gt[g]]]

----------------------------------------------------------------------------
(* Formulas                                                                *)

get_new_symbols(data, context) ==
    (UNION {ds.formula : ds \in data}) \ context

RECURSIVE Sum(_, _)
Sum(names, env) ==
    IF names = {} THEN 0
    ELSE LET n == CHOOSE n \in names : TRUE
         IN env[n] + Sum(names \ {n}, env)

\* ParameterSet(params, global_params).evaluate_and_set_amount_field():
\* parameters are evaluated in dependency order; a reference that is never
\* defined, or a circular one, is an error
RECURSIVE evaluate(_, _)
evaluate(params, env) ==
    IF params = {} THEN [ok |-> TRUE, env |-> env]
    ELSE LET ready == {p \in params : p.formula \subseteq DOMAIN env}
             value(n) == LET p == CHOOSE p \in ready : p.name = n
                         IN IF p.formula = NoFormula THEN p.amount
                            ELSE Sum(p.formula, env)
         IN IF ready = {} THEN [ok |-> FALSE, env |-> env]
            ELSE evaluate(params \ ready,
                          env @@ [n \in {p.name : p \in ready} |-> value(n)])

ParameterSet(data, glo) == evaluate(data, glo)

only(result, names) == [n \in (DOMAIN result) \cap names |-> result[n]]

----------------------------------------------------------------------------
(* ProjectParameter                                                        *)

ProjectParameter_static(s) ==
    [n \in {r.name : r \in s.pp} |-> (CHOOSE r \in s.pp : r.name = n).amount]

\* the atomic block: the amounts, freshen, expire_downstream
\* variant: the group is made fresh although the evaluation failed
ProjectParameter_update_freshen(s, ps) ==
    IF ~ps.ok THEN Raise(freshen(s, Project), "ParameterError")
    ELSE [expire_downstream(
            freshen(Group_get_or_create(
                [s EXCEPT !.pp = {[r EXCEPT !.amount = ps.env[r.name]] : r \in s.pp}],
                Project), Project),
            Project) EXCEPT !.done = @ \cup {Project}]

ProjectParameter_update(s, ps) ==
    IF ~ps.ok THEN Raise(s, "ParameterError")
    ELSE [expire_downstream(
            freshen(Group_get_or_create(
                [s EXCEPT !.pp = {[r EXCEPT !.amount = ps.env[r.name]] : r \in s.pp}],
                Project), Project),
            Project) EXCEPT !.done = @ \cup {Project}]

\* variant: without the early return for a fresh group
ProjectParameter_recalculate_always(s) ==
    IF s.pp = {} THEN s
    ELSE ProjectParameter_update(s, ParameterSet(s.pp, NoGlobals))

ProjectParameter_recalculate(s) ==
    IF ~expired(s, Project) THEN s
    ELSE IF s.pp = {} THEN s
    ELSE ProjectParameter_update(s, ParameterSet(s.pp, NoGlobals))

----------------------------------------------------------------------------
(* GroupDependency                                                         *)

\* the gd_circular trigger, the CHECK constraint and the unique index,
\* as the database applies them to one INSERT
GroupDependency_insert_error(gd, row) ==
    IF \E g \in gd : g.group = row.depends /\ g.depends = row.group
    THEN "CircularDependency"
    ELSE IF row.group = row.depends \/ row \in gd THEN "IntegrityError"
    ELSE "ok"

GroupDependency_insert(s, row, e) ==
    IF e # "ok" THEN Raise(s, e) ELSE [s EXCEPT !.gd = @ \cup {row}]

GroupDependency_save(s, row) ==
    IF row.group = Project THEN Raise(s, "ValueError")
    ELSE IF row.group \in Databases /\ row.depends # Project THEN Raise(s, "ValueError")
    ELSE GroupDependency_insert(s, row, GroupDependency_insert_error(s.gd, row))

GroupDependency_get_or_create(s, row) ==
    IF row \in s.gd THEN s ELSE GroupDependency_save(s, row)

\* one INSERT statement of several rows: the trigger fires before each row
\* and an ABORT undoes the whole statement
RECURSIVE insert_rows(_, _, _)
insert_rows(gd, rows, i) ==
    IF i > Len(rows) THEN [err |-> "ok", gd |-> gd]
    ELSE IF GroupDependency_insert_error(gd, rows[i]) # "ok"
    THEN [err |-> GroupDependency_insert_error(gd, rows[i]), gd |-> gd]
    ELSE insert_rows(gd \cup {rows[i]}, rows, i + 1)

\* variant: the rows inserted before the rejected one are kept
insert_result_partial(s, r) ==
    IF r.err # "ok" THEN [Raise(s, r.err) EXCEPT !.gd = r.gd] ELSE [s EXCEPT !.gd = r.gd]

insert_result(s, r) ==
    IF r.err # "ok" THEN Raise(s, r.err) ELSE [s EXCEPT !.gd = r.gd]

GroupDependency_insert_many(s, rows) == insert_result(s, insert_rows(s.gd, rows, 1))

----------------------------------------------------------------------------
(* DatabaseParameter                                                       *)

DatabaseParameter_load(s, database) == {r \in s.dp : r.database = database}

DatabaseParameter_static(s, database) ==
    [n \in {r.name : r \in DatabaseParameter_load(s, database)} |->
        (CHOOSE r \in s.dp : r.database = database /\ r.name = n).amount]

\* the atomic block: the amounts, freshen, expire_downstream
DatabaseParameter_update(s, database, ps) ==
    IF ~ps.ok THEN Raise(s, "ParameterError")
    ELSE [expire_downstream(
            freshen([s EXCEPT !.dp = {IF r.database = database
                                      THEN [r EXCEPT !.amount = ps.env[r.name]]
                                      ELSE r : r \in s.dp}],
                    database),
            database) EXCEPT !.done = @ \cup {database}]

\* "Add or delete `project` dependency if needed", then the evaluation
DatabaseParameter_link(s, database, data, new_symbols) ==
    IF new_symbols # {}
    THEN IF GroupDependency_get_or_create(s, [group |-> database, depends |-> Project]).err # "ok"
         THEN GroupDependency_get_or_create(s, [group |-> database, depends |-> Project])
         ELSE DatabaseParameter_update(
                GroupDependency_get_or_create(s, [group |-> database, depends |-> Project]),
                database,
                ParameterSet(data, only(ProjectParameter_static(s), new_symbols)))
    ELSE DatabaseParameter_update(
            [s EXCEPT !.gd = @ \ {[group |-> database, depends |-> Project]}],
            database, ParameterSet(data, NoGlobals))

\* "Parse all formulas, find missing variables"
DatabaseParameter_symbols(s, database, data, new_symbols) ==
    IF new_symbols \ {r.name : r \in s.pp} # {}
    THEN [Raise(s, "MissingName") EXCEPT !.missing = new_symbols \ {r.name : r \in s.pp}]
    ELSE DatabaseParameter_link(s, database, data, new_symbols)

DatabaseParameter_expired(s, database) ==
    IF s.err # "ok" THEN s
    ELSE IF ~expired(s, database) THEN s
    ELSE IF DatabaseParameter_load(s, database) = {} THEN s
    ELSE DatabaseParameter_symbols(s, database, DatabaseParameter_load(s, database),
            get_new_symbols(DatabaseParameter_load(s, database),
                            {r.name : r \in DatabaseParameter_load(s, database)}))

DatabaseParameter_recalculate(s, database) ==
    DatabaseParameter_expired(
        IF expired(s, Project) THEN ProjectParameter_recalculate(s) ELSE s, database)

----------------------------------------------------------------------------
(* ActivityParameter                                                       *)

ActivityParameter_load(s, group) == {r \in s.ap : r.group = group}

ActivityParameter_own(s, group) ==
    [n \in {r.name : r \in ActivityParameter_load(s, group)} |->
        (CHOOSE r \in s.ap : r.group = group /\ r.name = n).amount]

found(chain, kind, group, names, needed) ==
    IF names # {}
    THEN [chain |-> Append(chain, [kind |-> kind, group |-> group, names |-> names]),
          needed |-> needed \ names]
    ELSE [chain |-> chain, needed |-> needed]

\* "Iteratively search through other activity params"
RECURSIVE chain_order(_, _, _, _)
chain_order(s, order, i, acc) ==
    IF i > Len(order) THEN acc
    ELSE chain_order(s, order, i + 1,
            found(acc.chain, "activity", order[i],
                  (DOMAIN ActivityParameter_own(s, order[i])) \cap acc.needed, acc.needed))

\* "then db params"
chain_database(s, database, acc) ==
    IF acc.needed = {} THEN acc
    ELSE found(acc.chain, "database", database,
               (DOMAIN DatabaseParameter_static(s, database)) \cap acc.needed, acc.needed)

\* "then project params"
chain_project(s, acc) ==
    IF acc.needed = {} THEN acc
    ELSE found(acc.chain, "project", Project,
               (DOMAIN ProjectParameter_static(s)) \cap acc.needed, acc.needed)

\* variant: the raise for the names left over is dropped
chain_result_silent(acc) == [err |-> "ok", missing |-> {}, chain |-> acc.chain]

chain_result(acc) ==
    IF acc.needed # {} THEN [err |-> "MissingName", missing |-> acc.needed, chain |-> <<>>]
    ELSE [err |-> "ok", missing |-> {}, chain |-> acc.chain]

\* variant: the owning database is searched before the siblings of `order`
chain_search_database_first(s, group, data, needed) ==
    IF needed = {} THEN [err |-> "ok", missing |-> {}, chain |-> <<>>]
    ELSE IF ~s.gt[group].exists
    THEN [err |-> "DoesNotExist", missing |-> {}, chain |-> <<>>]
    ELSE chain_result(
            chain_project(s,
                chain_order(s, s.gt[group].order, 1,
                    chain_database(s, (CHOOSE r \in data : TRUE).database,
                                   [chain |-> <<>>, needed |-> needed]))))

chain_search(s, group, data, needed) ==
    IF needed = {} THEN [err |-> "ok", missing |-> {}, chain |-> <<>>]
    ELSE IF ~s.gt[group].exists
    THEN [err |-> "DoesNotExist", missing |-> {}, chain |-> <<>>]
    ELSE chain_result(
            chain_project(s,
                chain_database(s, (CHOOSE r \in data : TRUE).database,
                    chain_order(s, s.gt[group].order, 1,
                                [chain |-> <<>>, needed |-> needed]))))

\* [err, missing, chain]: the chain, or the MissingName raised
dependency_chain(s, group) ==
    IF ActivityParameter_load(s, group) = {}
    THEN [err |-> "ok", missing |-> {}, chain |-> <<>>]
    ELSE chain_search(s, group, ActivityParameter_load(s, group),
            get_new_symbols(ActivityParameter_load(s, group),
                            {r.name : r \in ActivityParameter_load(s, group)}))

ActivityParameter_static(s, kind, group, names) ==
    CASE kind = "project" -> only(ProjectParameter_static(s), names)
      [] kind = "database" -> only(DatabaseParameter_static(s, group), names)
      [] OTHER -> only(ActivityParameter_own(s, group), names)

RECURSIVE update_static(_, _, _, _)
update_static(s, chain, i, result) ==
    IF i > Len(chain) THEN result
    ELSE update_static(s, chain, i + 1,
            ActivityParameter_static(s, chain[i].kind, chain[i].group, chain[i].names)
                @@ result)

chain_static(s, dc) ==
    [err |-> dc.err, missing |-> dc.missing,
     static |-> update_static(s, dc.chain, 1, NoGlobals)]

\* [err, missing, static]: the {name: amount} of all names of the chain
static_dependencies(s, group) == chain_static(s, dependency_chain(s, group))

\* the value asteval gives an exchange formula; it reports an undefined name
\* and returns None (modelled as -1) instead of raising
interpreter(symtable, formula) ==
    IF formula \subseteq DOMAIN symtable THEN Sum(formula, symtable) ELSE -1

exchanges_written(s, rows, symtable) ==
    [s EXCEPT !.ex = [e \in DOMAIN s.ex |->
        IF \E obj \in rows : obj.exchange = e
        THEN [s.ex[e] EXCEPT !.amount =
                interpreter(symtable, (CHOOSE obj \in rows : obj.exchange = e).formula)]
        ELSE s.ex[e]]]

set_dirty(s, data) ==
    IF data = {} THEN Raise(s, "DoesNotExist")
    ELSE [s EXCEPT !.dirty = @ \cup {(CHOOSE r \in data : TRUE).database}]

exchanges_static(s, group, deps) ==
    IF deps.err # "ok" THEN [Raise(s, deps.err) EXCEPT !.missing = deps.missing]
    ELSE set_dirty(exchanges_written(s, {obj \in s.pe : obj.group = group},
                                     deps.static @@ ActivityParameter_own(s, group)),
                   ActivityParameter_load(s, group))

recalculate_exchanges(s, group) == exchanges_static(s, group, static_dependencies(s, group))

\* "Reset dependencies and dependency order"
reset_dependencies(s, group, chain, activities) ==
    IF chain = <<>> THEN s
    ELSE GroupDependency_insert_many(
            [Group_save(s, group, s.gt[group].fresh,
                        [k \in 1..Len(activities) |-> activities[k].group])
                EXCEPT !.gd = {d \in @ : d.group # group}],
            [k \in 1..Len(chain) |-> [group |-> group, depends |-> chain[k].group]])

\* "Update activity parameter values": the atomic block, then the exchanges
\* variant: the exchanges are projected before the amounts are written
ActivityParameter_update_early(s, group, ps) ==
    IF ~ps.ok THEN Raise(s, "ParameterError")
    ELSE [expire_downstream(
            freshen([recalculate_exchanges(s, group)
                        EXCEPT !.ap = {IF r.group = group
                                       THEN [r EXCEPT !.amount = ps.env[r.name]]
                                       ELSE r : r \in s.ap}],
                    group),
            group) EXCEPT !.done = @ \cup {group}]

ActivityParameter_update(s, group, ps) ==
    IF ~ps.ok THEN Raise(s, "ParameterError")
    ELSE recalculate_exchanges(
            [expire_downstream(
                freshen([s EXCEPT !.ap = {IF r.group = group
                                          THEN [r EXCEPT !.amount = ps.env[r.name]]
                                          ELSE r : r \in s.ap}],
                        group),
                group) EXCEPT !.done = @ \cup {group}],
            group)

ActivityParameter_evaluate(s, group, deps) ==
    IF deps.err # "ok" THEN [Raise(s, deps.err) EXCEPT !.missing = deps.missing]
    ELSE ActivityParameter_update(s, group,
            ParameterSet(ActivityParameter_load(s, group), deps.static))

ActivityParameter_values(s, group) ==
    IF s.err # "ok" THEN s
    ELSE ActivityParameter_evaluate(s, group, static_dependencies(s, group))

RECURSIVE ActivityParameter_recalculate(_, _, _)
RECURSIVE recalculate_upstream(_, _, _, _)

\* for row in chain[::-1]: mapping[row['kind']].recalculate(row['group'])
recalculate_upstream(s, chain, i, depth) ==
    IF i = 0 \/ s.err # "ok" THEN s
    ELSE recalculate_upstream(
            CASE chain[i].kind = "project" -> ProjectParameter_recalculate(s)
              [] chain[i].kind = "database" -> DatabaseParameter_recalculate(s, chain[i].group)
              [] OTHER -> ActivityParameter_recalculate(s, chain[i].group, depth + 1),
            chain, i - 1, depth)

ActivityParameter_chain(s, group, depth, dc) ==
    IF dc.err # "ok" THEN [Raise(s, dc.err) EXCEPT !.missing = dc.missing]
    ELSE ActivityParameter_values(
            recalculate_upstream(
                reset_dependencies(s, group, dc.chain,
                                   SelectSeq(dc.chain, LAMBDA o : o.kind = "activity")),
                dc.chain, Len(dc.chain), depth),
            group)

ActivityParameter_recalculate(s, group, depth) ==
    IF depth > MaxDepth THEN Raise(s, "RecursionError")
    ELSE IF ~expired(s, group) THEN s
    ELSE ActivityParameter_chain(s, group, depth, dependency_chain(s, group))

----------------------------------------------------------------------------
(* Single-row writes                                                       *)

\* ParameterizedExchange has no save() of its own: the row is inserted, and
\* no group is expired
ParameterizedExchange_save(s, row) == [s EXCEPT !.pe = @ \cup {row}]

\* variant: the row is written and the group left as it is
ProjectParameter_save_quiet(s, row) ==
    [Group_get_or_create(s, Project)
        EXCEPT !.pp = {r \in @ : r.name # row.name} \cup {row}]

ProjectParameter_save(s, row) ==
    [expire(Group_get_or_create(s, Project), Project)
        EXCEPT !.pp = {r \in @ : r.name # row.name} \cup {row}]

DatabaseParameter_save(s, row) ==
    IF row.database = Project
    THEN Raise(expire(Group_get_or_create(s, row.database), row.database), "IntegrityError")
    ELSE [expire(Group_get_or_create(s, row.database), row.database)
            EXCEPT !.dp = {r \in @ : ~(r.database = row.database /\ r.name = row.name)}
                          \cup {row}]

\* the ap_crossdatabase and ap_crossgroup triggers (BEFORE INSERT / UPDATE: they
\* see the table as it is before the write), then the CHECK constraint and the
\* unique index on (group, name); `old` is the set holding the row an UPDATE replaces
ActivityParameter_write_error(ap, old, new) ==
    IF (\E a \in ap : a.group = new.group)
       /\ new.database \notin {a.database : a \in {b \in ap : b.group = new.group}}
    THEN "CrossDatabase"
    ELSE IF \E a \in ap : a.database = new.database /\ a.code = new.code
                          /\ a.group # new.group
    THEN "CrossGroup"
    ELSE IF new.group = Project \/ new.group = new.database
            \/ (\E a \in ap \ old : a.group = new.group /\ a.name = new.name)
    THEN "IntegrityError"
    ELSE "ok"

ActivityParameter_write(s, old, new, err) ==
    IF err # "ok" THEN Raise(s, err) ELSE [s EXCEPT !.ap = (@ \ old) \cup {new}]

\* save() of a new row (old = {}) or of a row read from the table (old = {row})
ActivityParameter_save(s, old, new) ==
    ActivityParameter_write(expire(Group_get_or_create(s, new.group), new.group), old, new,
        ActivityParameter_write_error(s.ap, old, new))

RECURSIVE ActivityParameter_insert_many(_, _)
ActivityParameter_insert_many(s, rows) ==
    IF rows = {} \/ s.err # "ok" THEN s
    ELSE ActivityParameter_insert_many(
            ActivityParameter_write(s, {}, CHOOSE r \in rows : TRUE,
                ActivityParameter_write_error(s.ap, {}, CHOOSE r \in rows : TRUE)),
            rows \ {CHOOSE r \in rows : TRUE})

----------------------------------------------------------------------------
(* ParameterManager                                                        *)

new_project_parameters(s, data) ==
    IF Cardinality({ds.name : ds \in data}) # Cardinality(data)
    THEN Raise(s, "AssertionError")
    ELSE atomic(s, ProjectParameter_recalculate(
                    expire(Group_get_or_create([s EXCEPT !.pp = data], Project), Project)))

\* variant: the rows the database had are not deleted
new_database_parameters_keep(s, data, database) ==
    IF database \notin Databases THEN Raise(s, "AssertionError")
    ELSE IF Cardinality({ds.name : ds \in data}) # Cardinality(data)
    THEN Raise(s, "AssertionError")
    ELSE atomic(s, DatabaseParameter_recalculate(
                    expire(Group_get_or_create(
                        [s EXCEPT !.dp = {r \in @ : r.name \notin {ds.name : ds \in data}}
                                         \cup data],
                        database), database),
                    database))

new_database_parameters(s, data, database) ==
    IF database \notin Databases THEN Raise(s, "AssertionError")
    ELSE IF Cardinality({ds.name : ds \in data}) # Cardinality(data)
    THEN Raise(s, "AssertionError")
    ELSE atomic(s, DatabaseParameter_recalculate(
                    expire(Group_get_or_create(
                        [s EXCEPT !.dp = {r \in @ : r.database # database} \cup data],
                        database), database),
                    database))

\* the atomic block of new_activity_parameters, after the inserts
activity_parameters_inserted(s, group) ==
    IF s.err # "ok" THEN s
    ELSE ActivityParameter_recalculate(expire(Group_get_or_create(s, group), group), group, 0)

activity_parameters_replace(s, data, group) ==
    atomic(s, activity_parameters_inserted(
                ActivityParameter_insert_many([s EXCEPT !.ap = {r \in @ : r.group # group}],
                                              data),
                group))

\* variant: the group is created before the batch is validated
new_activity_parameters_create_first(s, data, group) ==
    IF Cardinality({o.database : o \in data}) # 1
    THEN Raise(Group_get_or_create(s, group), "AssertionError")
    ELSE IF {o.database : o \in data} \cap Databases = {}
    THEN Raise(Group_get_or_create(s, group), "AssertionError")
    ELSE IF Cardinality({o.name : o \in data}) # Cardinality(data)
    THEN Raise(Group_get_or_create(s, group), "AssertionError")
    ELSE activity_parameters_replace(Group_get_or_create(s, group), data, group)

new_activity_parameters(s, data, group) ==
    IF Cardinality({o.database : o \in data}) # 1 THEN Raise(s, "AssertionError")
    ELSE IF {o.database : o \in data} \cap Databases = {} THEN Raise(s, "AssertionError")
    ELSE IF Cardinality({o.name : o \in data}) # Cardinality(data)
    THEN Raise(s, "AssertionError")
    ELSE activity_parameters_replace(Group_get_or_create(s, group), data, group)

\* add_exchanges_to_group: for an exchange carrying 'formula', get_or_create
\* cannot create the row (group and formula are NOT NULL), and a row that is
\* there does not support item assignment
add_exchanges_to_group(s, group, key) ==
    LET formulas == {e \in DOMAIN s.ex : s.ex[e].output = key /\ s.ex[e].has_formula}
    IN IF formulas = {} THEN s
       ELSE IF \A e \in formulas : \E obj \in s.pe : obj.exchange = e
       THEN Raise(s, "TypeError")
       ELSE Raise(s, "IntegrityError")

\* for row in reformat(activity): ActivityParameter.create(**row)
RECURSIVE ActivityParameter_create_all(_, _, _, _)
ActivityParameter_create_all(s, group, key, ps) ==
    IF ps = {} \/ s.err # "ok" THEN s
    ELSE ActivityParameter_create_all(
            ActivityParameter_save(s, {},
                [group |-> group, database |-> key[1], code |-> key[2],
                 name |-> (CHOOSE o \in ps : TRUE).name,
                 formula |-> (CHOOSE o \in ps : TRUE).formula,
                 amount |-> (CHOOSE o \in ps : TRUE).amount]),
            group, key, ps \ {CHOOSE o \in ps : TRUE})

\* "Parameters are now active, remove from Activity", then the exchanges
activity_added(s, group, key) ==
    IF s.err # "ok" THEN s
    ELSE add_exchanges_to_group(
            [s EXCEPT !.act[key] = [has |-> FALSE, parameters |-> {}]], group, key)

\* "Avoid duplicate by deleting existing parameters", then the atomic block
activity_replaced(s, group, key) ==
    activity_added(atomic(s, ActivityParameter_create_all(s, group, key, s.act[key].parameters)),
                   group, key)

\* variant: the rows the activity had are not deleted first
add_to_group_keep(s, group, key) ==
    IF ~s.act[key].has THEN Group_get_or_create(s, group)
    ELSE activity_replaced(Group_get_or_create(s, group), group, key)

add_to_group(s, group, key) ==
    IF ~s.act[key].has THEN Group_get_or_create(s, group)
    ELSE activity_replaced(
            [Group_get_or_create(s, group)
                EXCEPT !.ap = {r \in @ : ~(r.database = key[1] /\ r.code = key[2])}],
            group, key)

RECURSIVE recalculate_databases(_, _, _)
recalculate_databases(s, dbs, i) ==
    IF i > Len(dbs) \/ s.err # "ok" THEN s
    ELSE recalculate_databases(
            IF expired(s, dbs[i]) THEN DatabaseParameter_recalculate(s, dbs[i]) ELSE s,
            dbs, i + 1)

RECURSIVE recalculate_groups(_, _, _)
recalculate_groups(s, objs, i) ==
    IF i > Len(objs) \/ s.err # "ok" THEN s
    ELSE recalculate_groups(
            IF objs[i] \in Databases \/ objs[i] = Project THEN s
            ELSE ActivityParameter_recalculate(s, objs[i], 0),
            objs, i + 1)

\* the groups Group.select().where(Group.fresh == False) yields
stale_groups(s) == {g \in GroupNames : expired(s, g)}

\* the state in which the query of the stale groups is run; `dbs` is the order
\* in which `databases` is iterated
before_groups(s, dbs) ==
    recalculate_databases(
        IF expired(s, Project) THEN ProjectParameter_recalculate(s) ELSE s, dbs, 1)

\* `objs` is the order in which the query yields the stale groups
ParameterManager_recalculate(s, dbs, objs) ==
    recalculate_groups(before_groups(s, dbs), objs, 1)

Permutations_of(S) ==
    {f \in [1..Cardinality(S) -> S] : \A x \in S : \E i \in 1..Cardinality(S) : f[i] = x}

----------------------------------------------------------------------------
(* Actions: one per call of the API                                        *)

Return(s, op, arg) ==
    /\ projectparameter' = s.pp
    /\ databaseparameter' = s.dp
    /\ activityparameter' = s.ap
    /\ group_table' = s.gt
    /\ groupdependency' = s.gd
    /\ parameterizedexchange' = s.pe
    /\ exchange' = s.ex
    /\ activity' = s.act
    /\ dirty' = s.dirty
    /\ last' = [op |-> op, arg |-> arg, err |-> s.err, missing |-> s.missing,
                done |-> s.done]

SaveProjectParameter(row) ==
    Return(ProjectParameter_save(Storage, row), "ProjectParameter.save", Project)

SaveDatabaseParameter(row) ==
    Return(DatabaseParameter_save(Storage, row), "DatabaseParameter.save", row.database)

\* a new row, or a row of the table with its formula and amount set anew
SaveActivityParameter(row) ==
    LET old == {r \in activityparameter : r.group = row.group /\ r.name = row.name}
    IN Return(ActivityParameter_save(Storage, old, row), "ActivityParameter.save", row.group)

\* a caller reorders the siblings a group searches and saves the Group
SaveGroup(name, order) ==
    /\ group_table[name].exists
    /\ Return(Group_save(Storage, name, group_table[name].fresh, order), "Group.save", name)

RecalculateProject ==
    Return(ProjectParameter_recalculate(Storage), "ProjectParameter.recalculate", Project)

RecalculateDatabase(database) ==
    Return(DatabaseParameter_recalculate(Storage, database),
           "DatabaseParameter.recalculate", database)

RecalculateActivity(group) ==
    Return(ActivityParameter_recalculate(Storage, group, 0),
           "ActivityParameter.recalculate", group)

RecalculateAll ==
    \E dbs \in Permutations_of(Databases) :
        \E objs \in Permutations_of(stale_groups(before_groups(Storage, dbs))) :
            Return(ParameterManager_recalculate(Storage, dbs, objs),
                   "ParameterManager.recalculate", "")

NewProjectParameters(data) ==
    Return(new_project_parameters(Storage, data),
           "ParameterManager.new_project_parameters", Project)

NewDatabaseParameters(data, database) ==
    Return(new_database_parameters(Storage, data, database),
           "ParameterManager.new_database_parameters", database)

NewActivityParameters(data, group) ==
    Return(new_activity_parameters(Storage, data, group),
           "ParameterManager.new_activity_parameters", group)

----------------------------------------------------------------------------
(* The initial state: empty tables                                         *)

UpdateActivityParameter(old, new) ==
    /\ old \in activityparameter
    /\ Return(ActivityParameter_save(Storage, {old}, new), "ActivityParameter.save", new.group)
AddToGroup(group, key) ==
    Return(add_to_group(Storage, group, key), "ParameterManager.add_to_group", group)
SaveParameterizedExchange(row) ==
    Return(ParameterizedExchange_save(Storage, row), "ParameterizedExchange.save", row.group)

SaveGroupDependency(row) ==
    Return(GroupDependency_save(Storage, row), "GroupDependency.save", <<row>>)
InsertManyGroupDependency(rows) ==
    Return(GroupDependency_insert_many(Storage, rows), "GroupDependency.insert_many", rows)

Init ==
    /\ projectparameter = {}
    /\ databaseparameter = {}
    /\ activityparameter = {}
    /\ group_table = [g \in GroupNames |-> NoGroup]
    /\ groupdependency = {}
    /\ parameterizedexchange = {}
    /\ exchange = [e \in ExchangeIds |->
            [output |-> <<"db1", "c1">>, amount |-> 0, has_formula |-> FALSE]]
    /\ activity = [a \in Activities |-> [has |-> FALSE, parameters |-> {}]]
    /\ dirty = {}
    /\ last = [op |-> "", arg |-> "", err |-> "ok", missing |-> {}, done |-> {}]

----------------------------------------------------------------------------
(* Spec: project, one database and one activity group that draws on both   *)

PRow(name, formula, amount) == [name |-> name, formula |-> formula, amount |-> amount]
DRow(database, name, formula, amount) ==
    [database |-> database, name |-> name, formula |-> formula, amount |-> amount]
ARow(group, database, code, name, formula, amount) ==
    [group |-> group, database |-> database, code |-> code, name |-> name,
     formula |-> formula, amount |-> amount]

ProjectRows == {PRow("x", NoFormula, a) : a \in {1, MaxAmount}} \cup {PRow("w", {"x"}, 0)}
DatabaseRows == {DRow("db1", "x", NoFormula, MaxAmount), DRow("db1", "y", {"x"}, 0)}
ActivityRows == {ARow("G", "db1", "c1", "z", {"x"}, 0), ARow("G", "db1", "c1", "z", {"y"}, 0)}

Next ==
    \/ \E row \in ProjectRows : SaveProjectParameter(row)
    \/ \E row \in DatabaseRows : SaveDatabaseParameter(row)
    \/ \E row \in ActivityRows : SaveActivityParameter(row)
    \/ RecalculateProject
    \/ RecalculateDatabase("db1")
    \/ RecalculateActivity("G")
    \/ RecalculateAll
    \/ \E data \in SUBSET ProjectRows : NewProjectParameters(data)
    \/ \E data \in SUBSET DatabaseRows : NewDatabaseParameters(data, "db1")
    \/ \E data \in SUBSET ActivityRows : NewActivityParameters(data, "G")

Spec == Init /\ [][Next]_vars

\* the same scopes written by the bulk replaces only
NextBulk ==
    \/ RecalculateProject
    \/ RecalculateDatabase("db1")
    \/ RecalculateActivity("G")
    \/ RecalculateAll
    \/ \E data \in SUBSET ProjectRows : NewProjectParameters(data)
    \/ \E data \in SUBSET DatabaseRows : NewDatabaseParameters(data, "db1")
    \/ \E data \in SUBSET ActivityRows : NewActivityParameters(data, "G")
SpecBulk == Init /\ [][NextBulk]_vars

----------------------------------------------------------------------------
(* Two sibling activity groups of db1: G uses x and y, H defines y, as a   *)
(* constant or from G's z; the `order` of each may name the other.         *)
SiblingProjectRows == {PRow("x", NoFormula, 1), PRow("y", NoFormula, 1)}
SiblingDatabaseRows == {DRow("db1", "y", NoFormula, MaxAmount)}
SiblingActivityRows ==
    {ARow("G", "db1", "c1", "z", {"x", "y"}, 0),
     ARow("H", "db1", "c2", "y", NoFormula, MaxAmount + 1),
     ARow("H", "db1", "c2", "y", {"z"}, 0)}
SiblingOrders == {<<"G", <<>> >>, <<"G", <<"H">> >>, <<"H", <<>> >>, <<"H", <<"G">> >>}

NextSiblings ==
    \/ \E row \in SiblingProjectRows : SaveProjectParameter(row)
    \/ \E row \in SiblingDatabaseRows : SaveDatabaseParameter(row)
    \/ \E row \in SiblingActivityRows : SaveActivityParameter(row)
    \/ \E o \in SiblingOrders : SaveGroup(o[1], o[2])
    \/ \E group \in {"G", "H"} : RecalculateActivity(group)
    \/ RecalculateAll
SpecSiblings == Init /\ [][NextSiblings]_vars

----------------------------------------------------------------------------
(* The GroupDependency table written directly: save() of one edge, and the *)
(* one-statement insert of the edges of one activity group.                *)
EdgeGroups == {Project, "G", "H", "I"}
Edge(group, depends) == [group |-> group, depends |-> depends]
EdgeRows == {Edge(g, d) : g \in EdgeGroups, d \in EdgeGroups}
EdgeBatches ==
    {<<Edge(g, d1), Edge(g, d2)>> : g \in {"G", "H"}, d1 \in {"G", "H", "I"}, d2 \in {"I", Project}}

NextGroupDependency ==
    \/ \E row \in EdgeRows : SaveGroupDependency(row)
    \/ \E rows \in EdgeBatches : InsertManyGroupDependency(rows)
SpecGroupDependency == Init /\ [][NextGroupDependency]_vars

----------------------------------------------------------------------------
(* An activity group of db1 that carries the name of the database db2.     *)
NamedProjectRows == {PRow("x", NoFormula, a) : a \in {1, MaxAmount}}
NamedDatabaseRows ==
    {DRow("db1", "y", NoFormula, MaxAmount), DRow("db2", "y", {"x"}, 0)}
NamedActivityRows ==
    {ARow("db2", "db1", "c1", "z", {"x"}, 0), ARow("db2", "db1", "c1", "z", {"y"}, 0)}

NextNamed ==
    \/ \E row \in NamedProjectRows : SaveProjectParameter(row)
    \/ \E row \in NamedDatabaseRows : SaveDatabaseParameter(row)
    \/ \E row \in NamedActivityRows : SaveActivityParameter(row)
    \/ \E database \in Databases : RecalculateDatabase(database)
    \/ RecalculateActivity("db2")
    \/ RecalculateAll
    \/ \E data \in SUBSET NamedActivityRows : NewActivityParameters(data, "db2")
SpecNamed == Init /\ [][NextNamed]_vars

----------------------------------------------------------------------------
(* Activity parameters of three activities moved between two groups; the   *)
(* activities carry a 'parameters' list of their own.                      *)
InitActivities ==
    /\ projectparameter = {} /\ databaseparameter = {} /\ activityparameter = {}
    /\ group_table = [g \in GroupNames |-> NoGroup]
    /\ groupdependency = {} /\ parameterizedexchange = {}
    /\ exchange = [e \in ExchangeIds |->
            [output |-> <<"db2", "c1">>, amount |-> 0, has_formula |-> TRUE]]
    /\ activity = [a \in Activities |->
            [has |-> TRUE, parameters |-> {PRow("p", NoFormula, 1)}]]
    /\ dirty = {}
    /\ last = [op |-> "", arg |-> "", err |-> "ok", missing |-> {}, done |-> {}]

MovedActivities == {<<"db1", "c1">>, <<"db2", "c1">>}
MovedRows ==
    {ARow(g, a[1], a[2], n, NoFormula, 1) :
        g \in {"G", "H"}, a \in MovedActivities, n \in {"p", "q"}}

NextActivities ==
    \/ \E row \in MovedRows : SaveActivityParameter(row)
    \/ \E old \in activityparameter :
        \E new \in {r \in MovedRows : r.name = old.name} : UpdateActivityParameter(old, new)
    \/ \E group \in {"G", "H"}, key \in MovedActivities : AddToGroup(group, key)
    \/ \E group \in {"G", "H"} :
        \E data \in SUBSET {r \in MovedRows : r.group = group /\ r.name = "p"} :
            NewActivityParameters(data, group)
SpecActivities == InitActivities /\ [][NextActivities]_vars

----------------------------------------------------------------------------
(* The three bulk replaces on batches that pass, that fail validation      *)
(* (duplicate names, unknown database db3, two databases) and that fail    *)
(* later (a name nobody defines, an activity held by another group).       *)
ReplaceProjectRows ==
    {PRow("x", NoFormula, 1), PRow("x", NoFormula, MaxAmount), PRow("w", {"x"}, 0)}
ReplaceDatabaseRows == {DRow("db1", "x", NoFormula, 1), DRow("db1", "y", {"x"}, 0)}
ReplaceActivityRows ==
    {ARow("G", "db1", "c1", "z", {"x"}, 0), ARow("G", "db1", "c1", "z", {"y"}, 0),
     ARow("G", "db2", "c1", "v", NoFormula, 1), ARow("G", "db3", "c1", "z", NoFormula, 1)}
ReplaceSiblingRows == {ARow("H", "db1", "c1", "u", NoFormula, 1)}

NextReplace ==
    \/ \E data \in SUBSET ReplaceProjectRows : NewProjectParameters(data)
    \/ \E data \in SUBSET ReplaceDatabaseRows :
        \E database \in {"db1", "db3"} : NewDatabaseParameters(data, database)
    \/ \E data \in SUBSET ReplaceActivityRows : NewActivityParameters(data, "G")
    \/ \E data \in SUBSET ReplaceSiblingRows : NewActivityParameters(data, "H")
SpecReplace == Init /\ [][NextReplace]_vars

\* three activity groups that read from each other: G reads a from H and b from
\* I, I reads a from H; with H.a = z the three orders close the ring G -> I -> H -> G
ChainedActivityRows ==
    {ARow("G", "db1", "c1", "z", {"a", "b"}, 0),
     ARow("G", "db1", "c1", "z", {"b"}, 0),
     ARow("H", "db1", "c2", "a", NoFormula, 1),
     ARow("H", "db1", "c2", "a", NoFormula, MaxAmount),
     ARow("H", "db1", "c2", "a", {"z"}, 0),
     ARow("I", "db2", "c1", "b", {"a"}, 0)}
ChainedOrders ==
    {<<"G", <<"H", "I">> >>, <<"G", <<"I">> >>, <<"I", <<"H">> >>, <<"H", <<"G">> >>}

NextChained ==
    \/ \E row \in ChainedActivityRows : SaveActivityParameter(row)
    \/ \E o \in ChainedOrders : SaveGroup(o[1], o[2])
    \/ \E group \in {"G", "H", "I"} : RecalculateActivity(group)
    \/ RecalculateAll
SpecChained == Init /\ [][NextChained]_vars

\* two exchanges of activity (db1, c1), linked to the groups G and H by
\* ParameterizedExchange rows; G reads x from project or y from its sibling H.
\* Each exchange is linked once: with two rows for one exchange the amount
\* kept is that of the row the query returns last
LinkedExchanges == {"e1", "e2"}
InitExchanges ==
    /\ projectparameter = {} /\ databaseparameter = {} /\ activityparameter = {}
    /\ group_table = [g \in GroupNames |-> NoGroup]
    /\ groupdependency = {} /\ parameterizedexchange = {}
    /\ exchange = [e \in LinkedExchanges |->
            [output |-> <<"db1", "c1">>, amount |-> 0, has_formula |-> FALSE]]
    /\ activity = [a \in Activities |-> [has |-> FALSE, parameters |-> {}]]
    /\ dirty = {}
    /\ last = [op |-> "", arg |-> "", err |-> "ok", missing |-> {}, done |-> {}]

LinkedProjectRows == {PRow("x", NoFormula, 1), PRow("x", NoFormula, MaxAmount)}
LinkedActivityRows ==
    {ARow("G", "db1", "c1", "z", {"x"}, 0),
     ARow("G", "db1", "c1", "z", {"y"}, 0),
     ARow("G", "db1", "c1", "z", {"x", "y"}, 0),
     ARow("H", "db1", "c2", "y", NoFormula, 1),
     ARow("H", "db1", "c2", "y", NoFormula, MaxAmount)}
LinkedRows ==
    {[group |-> "G", exchange |-> "e1", formula |-> {"x", "z"}],
     [group |-> "H", exchange |-> "e2", formula |-> {"y"}]}

NextExchanges ==
    \/ \E row \in LinkedProjectRows : SaveProjectParameter(row)
    \/ \E row \in LinkedActivityRows : SaveActivityParameter(row)
    \/ SaveGroup("G", <<"H">>)
    \/ \E row \in LinkedRows : SaveParameterizedExchange(row)
    \/ \E group \in {"G", "H"} : RecalculateActivity(group)
SpecExchanges == InitExchanges /\ [][NextExchanges]_vars

\* the orders a caller hands to Group.save: reserved names ('project', a
\* database) before, between and after the names of activity groups
OrderInputs ==
    {<< >>, <<"H">>, <<"G", "H">>, <<Project, "H">>, <<"H", "db1", "G">>,
     <<"G", Project, "H">>, <<"db1", "H", Project, "G", "db2">>, <<Project, "db1">>}
OrderedActivityRows ==
    {ARow("G", "db1", "c1", "z", {"y"}, 0),
     ARow("H", "db1", "c2", "y", NoFormula, 1)}

NextOrders ==
    \/ \E row \in OrderedActivityRows : SaveActivityParameter(row)
    \/ \E group \in {"G", "H"} : \E order \in OrderInputs : SaveGroup(group, order)
    \/ \E group \in {"G", "H"} : RecalculateActivity(group)
SpecOrders == Init /\ [][NextOrders]_vars

----------------------------------------------------------------------------
(* What the claims speak of                                                *)

Exists(g) == group_table[g].exists
Fresh(g) == group_table[g].exists /\ group_table[g].fresh
Stale(g) == group_table[g].exists /\ ~group_table[g].fresh
AllFresh == \A g \in GroupNames : group_table[g].exists => group_table[g].fresh

Range(f) == {f[i] : i \in DOMAIN f}

Tables == <<projectparameter, databaseparameter, activityparameter, group_table,
            groupdependency, parameterizedexchange, exchange>>

RecalculateCalls ==
    {"ProjectParameter.recalculate", "DatabaseParameter.recalculate",
     "ActivityParameter.recalculate"}

\* the names a scope defines, and the stored amount of one of them
ProjectNames == {r.name : r \in projectparameter}
DatabaseNames(database) == {r.name : r \in {d \in databaseparameter : d.database = database}}
GroupRows(group) == {r \in activityparameter : r.group = group}
ActivityNames(group) == {r.name : r \in GroupRows(group)}
ProjectAmount(n) == (CHOOSE r \in projectparameter : r.name = n).amount
DatabaseAmount(database, n) ==
    (CHOOSE r \in databaseparameter : r.database = database /\ r.name = n).amount
ActivityAmount(group, n) ==
    (CHOOSE r \in activityparameter : r.group = group /\ r.name = n).amount
OwningDatabase(group) == (CHOOSE r \in activityparameter : r.group = group).database

\* the amounts a scope stores, by name
ScopeAmounts(g) ==
    IF g = Project THEN {<<r.name, r.amount>> : r \in projectparameter}
    ELSE {<<r.name, r.amount>> : r \in {d \in databaseparameter : d.database = g}}
         \cup {<<r.name, r.amount>> : r \in GroupRows(g)}

\* the resolution priority, stated on the stored rows: the siblings of `order`
\* in turn, then the owning database, then project
Siblings(group, n) ==
    {i \in 1..Len(group_table[group].order) : n \in ActivityNames(group_table[group].order[i])}
FirstSibling(group, n) ==
    group_table[group].order[CHOOSE i \in Siblings(group, n) : \A j \in Siblings(group, n) : i <= j]
ActivityResolvable(group, n) ==
    \/ n \in ActivityNames(group)
    \/ Siblings(group, n) # {}
    \/ n \in DatabaseNames(OwningDatabase(group))
    \/ n \in ProjectNames
ActivityResolved(group, n) ==
    IF n \in ActivityNames(group) THEN ActivityAmount(group, n)
    ELSE IF Siblings(group, n) # {} THEN ActivityAmount(FirstSibling(group, n), n)
    ELSE IF n \in DatabaseNames(OwningDatabase(group))
    THEN DatabaseAmount(OwningDatabase(group), n)
    ELSE ProjectAmount(n)
DatabaseResolvable(database, n) == n \in DatabaseNames(database) \cup ProjectNames
DatabaseResolved(database, n) ==
    IF n \in DatabaseNames(database) THEN DatabaseAmount(database, n) ELSE ProjectAmount(n)

ProjectEnv(names) == [n \in names |-> ProjectAmount(n)]
DatabaseEnv(database, names) == [n \in names |-> DatabaseResolved(database, n)]
ActivityEnv(group, names) == [n \in names |-> ActivityResolved(group, n)]

----------------------------------------------------------------------------
(* C1: after ParameterManager.recalculate() returns without raising, every *)
(* group of the registry is fresh.                                         *)
C1_AllFreshAfterRecalculate ==
    (last.op = "ParameterManager.recalculate" /\ last.err = "ok") => AllFresh

----------------------------------------------------------------------------
(* C2: when all groups are fresh, the amount of every parameter with a     *)
(* formula is the formula evaluated on the stored amounts, each name taken *)
(* from the scope the resolution priority selects now.                     *)
C2_FreshAmountsCurrent ==
    AllFresh =>
        /\ \A r \in projectparameter : r.formula # NoFormula =>
            /\ r.formula \subseteq ProjectNames
            /\ r.amount = Sum(r.formula, ProjectEnv(r.formula))
        /\ \A r \in databaseparameter : r.formula # NoFormula =>
            /\ \A n \in r.formula : DatabaseResolvable(r.database, n)
            /\ r.amount = Sum(r.formula, DatabaseEnv(r.database, r.formula))
        /\ \A r \in activityparameter : r.formula # NoFormula =>
            /\ \A n \in r.formula : ActivityResolvable(r.group, n)
            /\ r.amount = Sum(r.formula, ActivityEnv(r.group, r.formula))

----------------------------------------------------------------------------
(* C3: recalculate on a target whose group is already fresh writes         *)
(* nothing: no amount, flag, order, edge or exchange changes.  As stated,  *)
(* for every scope and whatever the state of the other groups.             *)
C3_FreshTargetNoOp ==
    [][(/\ last'.op \in RecalculateCalls
        /\ Fresh(last'.arg))
       => UNCHANGED Tables]_vars

(* C3, amended: the same for the project and activity scopes, and for a    *)
(* database whenever the project group is not stale; a database            *)
(* recalculation first recalculates a stale project.                       *)
C3_FreshTargetNoOpUnlessProjectStale ==
    [][(/\ last'.op \in RecalculateCalls
        /\ Fresh(last'.arg)
        /\ last'.op = "DatabaseParameter.recalculate" => ~Stale(Project))
       => UNCHANGED Tables]_vars

\* a recalculation of the fresh db1 has returned while another group was
\* stale, and no group was recalculated
C3_Witness ==
    /\ last.op = "DatabaseParameter.recalculate" /\ last.arg = "db1"
    /\ last.err = "ok" /\ last.done = {}
    /\ Fresh("db1") /\ Stale("G") /\ Fresh(Project)

----------------------------------------------------------------------------
(* C9: the unresolved names of a group are the names its formulas use that *)
(* neither the group nor any scope of its chain defines.                   *)
DatabaseUnresolved(database) ==
    {n \in UNION {r.formula : r \in {d \in databaseparameter : d.database = database}} :
        ~DatabaseResolvable(database, n)}
ActivityUnresolved(group) ==
    {n \in UNION {r.formula : r \in GroupRows(group)} : ~ActivityResolvable(group, n)}
Amounts == <<projectparameter, databaseparameter, activityparameter, exchange>>

(* C9: recalculating a stale group that has unresolved names raises the    *)
(* missing-variables error naming exactly those names, and no amount is    *)
(* written.                                                                *)
C9_MissingNamesNothingWritten ==
    [][/\ (/\ last'.op = "DatabaseParameter.recalculate"
           /\ Stale(last'.arg) /\ DatabaseUnresolved(last'.arg) # {})
          => /\ last'.err = "MissingName"
             /\ last'.missing = DatabaseUnresolved(last'.arg)
             /\ UNCHANGED Amounts
       /\ (/\ last'.op = "ActivityParameter.recalculate"
           /\ Stale(last'.arg) /\ ActivityUnresolved(last'.arg) # {})
          => /\ last'.err = "MissingName"
             /\ last'.missing = ActivityUnresolved(last'.arg)
             /\ UNCHANGED Amounts]_vars

(* C9, amended: the same, except that a database recalculation first       *)
(* recalculates a stale project: the project's amounts may then be         *)
(* written, and if that recalculation raises, its error is the one raised; *)
(* no amount of the database or of an activity group is written.           *)
C9_MissingNamesAfterProject ==
    [][/\ (/\ last'.op = "DatabaseParameter.recalculate"
           /\ Stale(last'.arg) /\ DatabaseUnresolved(last'.arg) # {})
          => /\ \/ /\ last'.err = "MissingName"
                   /\ last'.missing = DatabaseUnresolved(last'.arg)
                \/ /\ Stale(Project)
                   /\ last'.err = "ParameterError"
                   /\ UNCHANGED projectparameter
             /\ ~Stale(Project) => UNCHANGED projectparameter
             /\ UNCHANGED <<databaseparameter, activityparameter, exchange>>
       /\ (/\ last'.op = "ActivityParameter.recalculate"
           /\ Stale(last'.arg) /\ ActivityUnresolved(last'.arg) # {})
          => /\ last'.err = "MissingName"
             /\ last'.missing = ActivityUnresolved(last'.arg)
             /\ UNCHANGED Amounts]_vars

\* a recalculation has raised the error for a name no scope defines, and
\* the group is still stale
C9_Witness ==
    /\ last.op = "ActivityParameter.recalculate" /\ last.arg = "G"
    /\ last.err = "MissingName" /\ last.missing = {"y"}
    /\ Stale("G") /\ ActivityUnresolved("G") = {"y"}
    /\ "x" \in ProjectNames

----------------------------------------------------------------------------
(* C10: when a group R is recalculated, exactly the groups with an edge    *)
(* (G, R) are marked stale: groups further downstream keep their flag      *)
(* until their own turn, and expiring writes flags only, never the amount  *)
(* of a group that was not itself recalculated.  last.done holds the       *)
(* groups recalculated by the call.                                        *)
C10_ExpireOneHop ==
    [][last'.op \in RecalculateCalls =>
        /\ \A R \in last'.done : \A G \in GroupNames :
            [group |-> G, depends |-> R] \in groupdependency'
                => (Stale(G))' \/ G \in last'.done
        /\ \A G \in GroupNames \ last'.done :
            /\ group_table'[G] # group_table[G]
                => /\ Fresh(G) /\ (Stale(G))'
                   /\ group_table'[G].order = group_table[G].order
                   /\ \E R \in last'.done :
                        [group |-> G, depends |-> R] \in groupdependency
            /\ (ScopeAmounts(G))' = ScopeAmounts(G)]_vars

\* project has been recalculated: db1, which depends on it, is stale, and
\* G, which depends on db1 only, is still fresh
C10_Witness ==
    /\ last.op = "ProjectParameter.recalculate" /\ last.done = {Project}
    /\ [group |-> "db1", depends |-> Project] \in groupdependency
    /\ [group |-> "G", depends |-> "db1"] \in groupdependency
    /\ [group |-> "G", depends |-> Project] \notin groupdependency
    /\ Stale("db1") /\ Fresh("G")

----------------------------------------------------------------------------
(* C8: dependency_chain takes each free name of a group from the first     *)
(* scope defining it in order[0], order[1], ..., owning database, project: *)
(* each free name is in exactly one entry, the entries follow that         *)
(* sequence with at most one database and one project entry, and the       *)
(* value used in evaluation is the chosen scope's.                         *)
FreeNames(group) == (UNION {r.formula : r \in GroupRows(group)}) \ ActivityNames(group)
ChosenScope(group, n) ==
    IF Siblings(group, n) # {} THEN <<"activity", FirstSibling(group, n)>>
    ELSE IF n \in DatabaseNames(OwningDatabase(group))
    THEN <<"database", OwningDatabase(group)>>
    ELSE <<"project", Project>>
Rank(group, entry) ==
    CASE entry.kind = "activity" ->
            CHOOSE i \in 1..Len(group_table[group].order) :
                /\ group_table[group].order[i] = entry.group
                /\ \A j \in 1..(i - 1) : group_table[group].order[j] # entry.group
      [] entry.kind = "database" -> Len(group_table[group].order) + 1
      [] OTHER -> Len(group_table[group].order) + 2
ChainAsPriority(group, chain, static) ==
    /\ \A n \in FreeNames(group) :
        /\ Cardinality({i \in 1..Len(chain) : n \in chain[i].names}) = 1
        /\ \E i \in 1..Len(chain) :
            n \in chain[i].names /\ <<chain[i].kind, chain[i].group>> = ChosenScope(group, n)
        /\ n \in DOMAIN static /\ static[n] = ActivityResolved(group, n)
    /\ \A i \in 1..Len(chain) :
        /\ chain[i].names # {} /\ chain[i].names \subseteq FreeNames(group)
        /\ chain[i].kind = "activity" => chain[i].group \in Range(group_table[group].order)
        /\ \A j \in (i + 1)..Len(chain) : Rank(group, chain[i]) < Rank(group, chain[j])
----------------------------------------------------------------------------
(* C4: an insert of edge (A, B) while (B, A) is stored, and an insert of a *)
(* self-edge (A, A), is rejected with an error and leaves the edge set as  *)
(* it was, for save() and for the one-statement bulk insert that           *)
(* ActivityParameter.recalculate performs.  last.arg holds the rows of the *)
(* insert.                                                                 *)
Reverse(e) == [group |-> e.depends, depends |-> e.group]
C4_CycleInsertRejected ==
    [][(/\ last'.op \in {"GroupDependency.save", "GroupDependency.insert_many"}
        /\ \E i \in 1..Len(last'.arg) :
            \/ last'.arg[i].group = last'.arg[i].depends
            \/ Reverse(last'.arg[i]) \in groupdependency)
       => /\ last'.err # "ok"
          /\ groupdependency' = groupdependency]_vars

\* a bulk insert whose first row was acceptable and whose second row
\* closes a 2-cycle has been rejected
C4_Witness ==
    /\ last.op = "GroupDependency.insert_many" /\ last.err = "CircularDependency"
    /\ last.arg[1] \notin groupdependency
    /\ Reverse(last.arg[1]) \notin groupdependency
    /\ Reverse(last.arg[2]) \in groupdependency

----------------------------------------------------------------------------
(* C5: the GroupDependency graph is acyclic in every reachable state: no   *)
(* cycle of any length, an insert closing a cycle of three or more edges   *)
(* being rejected like the 2-cycle.                                        *)
Compose(R) == R \cup {<<p[1][1], p[2][2]>> : p \in {q \in R \X R : q[1][2] = q[2][1]}}
Paths == Compose(Compose(Compose({<<e.group, e.depends>> : e \in groupdependency})))
C5_Acyclic == \A g \in GroupNames : <<g, g>> \notin Paths

----------------------------------------------------------------------------
(* C6: no edge has group = 'project', and every edge whose group is the    *)
(* name of a database depends on 'project', whether written by save or     *)
(* get_or_create or by the bulk insert of ActivityParameter.recalculate.   *)
C6_ScopeOfEdges ==
    \A e \in groupdependency :
        /\ e.group # Project
        /\ e.group \in Databases => e.depends = Project

----------------------------------------------------------------------------
(* C7: all activity parameters of a group are of one database, and all of  *)
(* one (database, code) are of one group; a write breaking either rule,    *)
(* by ActivityParameter.save, add_to_group or new_activity_parameters,     *)
(* fails and leaves the stored rows unchanged.                             *)
OneDatabasePerGroup ==
    \A a, b \in activityparameter : a.group = b.group => a.database = b.database
OneGroupPerActivity ==
    \A a, b \in activityparameter :
        (a.database = b.database /\ a.code = b.code) => a.group = b.group
C7_ActivityParameterScopes ==
    [][/\ OneDatabasePerGroup' /\ OneGroupPerActivity'
       /\ (/\ last'.op \in {"ActivityParameter.save", "ParameterManager.add_to_group",
                            "ParameterManager.new_activity_parameters"}
           /\ last'.err \in {"CrossDatabase", "CrossGroup"})
          => activityparameter' = activityparameter]_vars

----------------------------------------------------------------------------
(* C11: once the parameters of a database are written and recalculated,    *)
(* each of its formulas has the value it takes on the project amounts; and *)
(* when project and then the database are recalculated after a project     *)
(* amount changed, the database is fresh with the value on the new         *)
(* project amounts.                                                        *)
DatabaseRowsOf(database) == {r \in databaseparameter : r.database = database}
DatabaseCurrent(database) ==
    \A r \in DatabaseRowsOf(database) : r.formula # NoFormula =>
        /\ \A n \in r.formula : DatabaseResolvable(database, n)
        /\ r.amount = Sum(r.formula, DatabaseEnv(database, r.formula))
C11_DatabaseFollowsProject ==
    [][\A database \in Databases :
        /\ (/\ last'.op = "ParameterManager.new_database_parameters"
            /\ last'.arg = database /\ last'.err = "ok")
           => DatabaseCurrent(database)'
        /\ (/\ last.op = "ProjectParameter.recalculate" /\ last.err = "ok"
            /\ projectparameter # {}
            /\ last'.op = "DatabaseParameter.recalculate"
            /\ last'.arg = database /\ last'.err = "ok"
            /\ DatabaseRowsOf(database) # {})
           => (Fresh(database) /\ DatabaseCurrent(database))']_vars

\* db1 was recalculated after project: y, whose formula is project's x, has
\* the largest amount x takes
C11_Witness ==
    /\ last.op = "DatabaseParameter.recalculate" /\ last.err = "ok"
    /\ last.done = {"db1"}
    /\ "x" \notin DatabaseNames("db1") /\ "y" \in DatabaseNames("db1")
    /\ ProjectAmount("x") = MaxAmount /\ DatabaseAmount("db1", "y") = MaxAmount

----------------------------------------------------------------------------
(* C12: a bulk replace whose batch fails validation (duplicate names, an   *)
(* unknown database, rows of more than one database) raises before any     *)
(* mutation: rows, groups and edges are as before the call.                *)
BulkReplaces ==
    {"ParameterManager.new_project_parameters", "ParameterManager.new_database_parameters",
     "ParameterManager.new_activity_parameters"}
C12_ValidationBeforeMutation ==
    [][(last'.op \in BulkReplaces /\ last'.err = "AssertionError")
       => UNCHANGED Tables]_vars

\* a batch for G has failed validation while G held rows and project,
\* db1 and G were registered
C12_Witness ==
    /\ last.op = "ParameterManager.new_activity_parameters" /\ last.arg = "G"
    /\ last.err = "AssertionError"
    /\ GroupRows("G") # {} /\ projectparameter # {} /\ databaseparameter # {}
    /\ groupdependency # {}

----------------------------------------------------------------------------
(* C13: a bulk replace that fails after validation (an insert rejected by  *)
(* a constraint, the recalculation raising) rolls the delete and the       *)
(* inserts back together: the parameter rows are those before the call.    *)
C13_AllOrNothing ==
    [][(last'.op \in BulkReplaces /\ last'.err \notin {"ok", "AssertionError"})
       => UNCHANGED <<projectparameter, databaseparameter, activityparameter>>]_vars

\* a batch for db1 was refused for a name nobody defines, and db1 still has
\* the rows it had
C13_Witness ==
    /\ last.op = "ParameterManager.new_database_parameters" /\ last.arg = "db1"
    /\ last.err = "MissingName"
    /\ DatabaseNames("db1") = {"x"}

----------------------------------------------------------------------------
(* C14: after a successful bulk replace of a scope, the names stored for   *)
(* that scope are the names of the batch, and the rows (names, formulas)   *)
(* of every other scope are unchanged.                                     *)
Shape(rows) == {[r EXCEPT !.amount = 0] : r \in rows}
BatchNames(data) == {ds.name : ds \in data}
C14_ReplaceFrame ==
    [][/\ \A data \in SUBSET ReplaceProjectRows :
            (/\ last'.op = "ParameterManager.new_project_parameters" /\ last'.err = "ok"
             /\ NewProjectParameters(data))
            => /\ ProjectNames' = BatchNames(data)
               /\ Shape(databaseparameter)' = Shape(databaseparameter)
               /\ Shape(activityparameter)' = Shape(activityparameter)
       /\ \A data \in SUBSET ReplaceDatabaseRows :
            (/\ last'.op = "ParameterManager.new_database_parameters" /\ last'.err = "ok"
             /\ NewDatabaseParameters(data, "db1"))
            => /\ DatabaseNames("db1")' = BatchNames(data)
               /\ Shape(projectparameter)' = Shape(projectparameter)
               /\ Shape({r \in databaseparameter : r.database # "db1"})'
                    = Shape({r \in databaseparameter : r.database # "db1"})
               /\ Shape(activityparameter)' = Shape(activityparameter)
       /\ \A group \in {"G", "H"} :
            \A data \in SUBSET {r \in ReplaceActivityRows \cup ReplaceSiblingRows :
                                    r.group = group} :
                (/\ last'.op = "ParameterManager.new_activity_parameters" /\ last'.err = "ok"
                 /\ last'.arg = group /\ NewActivityParameters(data, group))
                => /\ ActivityNames(group)' = BatchNames(data)
                   /\ Shape(projectparameter)' = Shape(projectparameter)
                   /\ Shape(databaseparameter)' = Shape(databaseparameter)
                   /\ Shape({r \in activityparameter : r.group # group})'
                        = Shape({r \in activityparameter : r.group # group})]_vars

\* db1 was replaced by a batch of one name while project and G held rows
C14_Witness ==
    /\ last.op = "ParameterManager.new_database_parameters" /\ last.arg = "db1"
    /\ last.err = "ok"
    /\ DatabaseNames("db1") = {"x"}
    /\ projectparameter # {} /\ GroupRows("G") # {}

----------------------------------------------------------------------------
(* C15: add_to_group(group, activity) on an activity with embedded         *)
(* parameters leaves, for that (database, code), exactly one row per       *)
(* embedded parameter, all under `group`, and removes the embedded         *)
(* parameters from the activity; the same call again changes nothing.      *)
ActivityRowsOf(key) == {r \in activityparameter : r.database = key[1] /\ r.code = key[2]}
Embedded(group, key) ==
    {ARow(group, key[1], key[2], o.name, o.formula, o.amount) : o \in activity[key].parameters}
Added(group, key) ==
    /\ ActivityRowsOf(key)' = Embedded(group, key)
    /\ Cardinality(Embedded(group, key)) = Cardinality(activity[key].parameters)
    /\ ~activity'[key].has
    /\ (add_to_group(Storage, group, key).ap)' = activityparameter'
C15_AddToGroup ==
    [][\A group \in {"G", "H"}, key \in MovedActivities :
        (/\ last'.op = "ParameterManager.add_to_group" /\ last'.arg = group
         /\ activity[key].has
         /\ AddToGroup(group, key))
        => Added(group, key)]_vars

(* C15, amended: the same, provided no insert of the call is rejected: the *)
(* rows the group keeps are of the activity's database and none of them    *)
(* has the name of an embedded parameter.                                  *)
Kept(group, key) == GroupRows(group) \ ActivityRowsOf(key)
Accepted(group, key) ==
    /\ group # Project /\ group # key[1]
    /\ \A r \in Kept(group, key) :
        /\ r.database = key[1]
        /\ r.name \notin {o.name : o \in activity[key].parameters}
    /\ Cardinality({o.name : o \in activity[key].parameters})
        = Cardinality(activity[key].parameters)
C15_AddToGroupAccepted ==
    [][\A group \in {"G", "H"}, key \in MovedActivities :
        (/\ last'.op = "ParameterManager.add_to_group" /\ last'.arg = group
         /\ activity[key].has /\ Accepted(group, key)
         /\ AddToGroup(group, key))
        => Added(group, key)]_vars

\* activity (db1, c1) was added to H: its embedded parameter is a row of H,
\* and gone from the activity
C15_Witness ==
    /\ last.op = "ParameterManager.add_to_group" /\ last.arg = "H" /\ last.err = "ok"
    /\ ~activity[<<"db1", "c1">>].has
    /\ ActivityRowsOf(<<"db1", "c1">>) = {ARow("H", "db1", "c1", "p", NoFormula, 1)}

----------------------------------------------------------------------------
(* C16: after ActivityParameter.recalculate(G) completes on a stale G, the *)
(* edges with group = G are exactly those to the groups of                 *)
(* dependency_chain(G), and G's order is the activity entries of the chain *)
(* in chain order; edges of an earlier recalculation are removed, also     *)
(* when the new chain is empty.                                            *)
ChainGroups(chain) == {chain[i].group : i \in 1..Len(chain)}
ChainActivities(chain) ==
    [k \in 1..Len(SelectSeq(chain, LAMBDA o : o.kind = "activity")) |->
        SelectSeq(chain, LAMBDA o : o.kind = "activity")[k].group]
C16_EdgesAreTheChain ==
    [][\A group \in GroupNames :
        (/\ last'.op = "ActivityParameter.recalculate" /\ last'.arg = group
         /\ last'.err = "ok" /\ Stale(group) /\ group \in last'.done)
        => /\ {e \in groupdependency' : e.group = group}
                = {[group |-> group, depends |-> d] :
                        d \in ChainGroups(dependency_chain(Storage, group).chain)}
           /\ group_table'[group].order
                = ChainActivities(dependency_chain(Storage, group).chain)]_vars

----------------------------------------------------------------------------
(* C17: after DatabaseParameter.recalculate(db) returns on a stale db, the *)
(* edge (db, project) exists exactly when a formula of db references a     *)
(* name db does not define; it is gone when the formulas stopped using     *)
(* project variables or all parameters of db were removed.                 *)
UsesProject(database) ==
    (UNION {r.formula : r \in DatabaseRowsOf(database)}) \ DatabaseNames(database) # {}
C17_ProjectEdge ==
    [][\A database \in Databases :
        (/\ last'.op = "DatabaseParameter.recalculate" /\ last'.arg = database
         /\ last'.err = "ok" /\ Stale(database))
        => ([group |-> database, depends |-> Project] \in groupdependency'
                <=> UsesProject(database))]_vars

----------------------------------------------------------------------------
(* C18: upstream first. When a group's formulas are evaluated and its      *)
(* amounts written, every upstream group it reads from is fresh: project   *)
(* for a database, every group of the dependency chain for an activity     *)
(* group; no upstream group refreshed earlier in the pass is expired again *)
(* by a later upstream recalculation before the downstream group reads it. *)
(* Nothing after the evaluation of the target expires a group of its chain *)
(* (expire_downstream(target) reaches only groups that depend on the       *)
(* target), so an upstream group stale when the call returns was stale     *)
(* when the target read it.                                                *)
Upstream(group) ==
    IF group \in Databases /\ DatabaseRowsOf(group) # {}
    THEN IF UsesProject(group) THEN {Project} ELSE {}
    ELSE ChainGroups(dependency_chain(Storage, group).chain)
C18_UpstreamFirst ==
    [][\A group \in GroupNames :
        (/\ last'.op \in {"DatabaseParameter.recalculate", "ActivityParameter.recalculate"}
         /\ last'.arg = group /\ last'.err = "ok"
         /\ Stale(group) /\ group \in last'.done)
        => \A up \in Upstream(group) : Fresh(up)']_vars

----------------------------------------------------------------------------
(* C19: every recalculation call terminates, with rings of two, three or   *)
(* more groups as well: the recursion never enters a still-stale group     *)
(* again without bound. With the three activity groups of SpecChained a    *)
(* call stack that enters no group twice is at most three calls deep, so a *)
(* call that runs deeper than MaxDepth has entered a stale group again.    *)
C19_Terminates == last.err # "RecursionError"

----------------------------------------------------------------------------
(* C20: when the recalculation of a scope raises for a missing variable or *)
(* a formula error, no amount of that scope has changed and its group is   *)
(* still stale; amounts and the fresh flag of a scope are written          *)
(* together: in any recalculation call, the scopes whose amounts changed   *)
(* or whose group became fresh are scopes whose recalculation completed.   *)
Failures == {"MissingName", "ParameterError"}
C20_RaiseLeavesScope ==
    [][\A g \in GroupNames :
        /\ (/\ last'.op \in RecalculateCalls /\ last'.arg = g
            /\ last'.err \in Failures /\ Stale(g))
           => /\ g \notin last'.done
              /\ ScopeAmounts(g)' = ScopeAmounts(g)
              /\ Stale(g)'
        /\ (/\ last'.op \in RecalculateCalls \cup {"ParameterManager.recalculate"}
            /\ \/ ScopeAmounts(g)' # ScopeAmounts(g)
               \/ Stale(g) /\ Fresh(g)')
           => g \in last'.done]_vars

\* a project recalculation has raised on a formula whose name is undefined:
\* the amount of w is the one stored before, and project is stale
C20_Witness ==
    /\ last.op = "ProjectParameter.recalculate" /\ last.err = "ParameterError"
    /\ Stale(Project)
    /\ ScopeAmounts(Project) = {<<"w", 0>>}

----------------------------------------------------------------------------
(* C21: exchange projection. After ActivityParameter.recalculate(G)        *)
(* completes on a stale G (G is among the groups the call recalculated),   *)
(* every exchange linked to G has the amount of                            *)
(* its formula evaluated on G's stored amounts and those of its chain, G   *)
(* is fresh, the database of G is dirty, and the exchanges linked to other *)
(* groups are unchanged.                                                   *)
symtable(group) ==
    static_dependencies(Storage, group).static @@ ActivityParameter_own(Storage, group)
LinkedTo(groups) == {obj.exchange : obj \in {o \in parameterizedexchange : o.group \in groups}}
ProjectedFrom(group, table) ==
    \A obj \in {o \in parameterizedexchange : o.group = group} :
        exchange[obj.exchange].amount = interpreter(table, obj.formula)
Projected(group) ==
    /\ Fresh(group)
    /\ OwningDatabase(group) \in dirty
    /\ \/ \A o \in parameterizedexchange : o.group # group
       \/ ProjectedFrom(group, symtable(group))
Completed(group) ==
    /\ last.op = "ActivityParameter.recalculate" /\ last.arg = group
    /\ last.err = "ok" /\ group \in last.done
----------------------------------------------------------------------------
(* C22: saving one parameter of any scope leaves the owning group existing *)
(* (created if it did not exist) and stale; no operation deletes a group,  *)
(* so the set of group names only grows.                                   *)
SaveCalls == {"ProjectParameter.save", "DatabaseParameter.save", "ActivityParameter.save"}
C22_SaveExpiresGroup ==
    [][\A g \in GroupNames :
        /\ (last'.op \in SaveCalls /\ last'.arg = g) => (Exists(g) /\ ~Fresh(g))'
        /\ Exists(g) => Exists(g)']_vars

\* the project was recalculated with db1, then a project parameter was saved
\* again: project is stale, db1 still fresh
C22_Witness ==
    /\ last.op = "ProjectParameter.save"
    /\ Exists(Project) /\ ~Fresh(Project)
    /\ Exists("db1") /\ Fresh("db1")

----------------------------------------------------------------------------
(* C23: after any save of a Group (expire and freshen included) its stored *)
(* order holds neither 'project' nor the name of a registered database,    *)
(* and the entries that remain keep their relative order.                  *)
Reserved == Databases \cup {Project}
KeptAt(order) == {i \in 1..Len(order) : order[i] \notin Reserved}
\* the k-th of the positions that are kept
Nth(order, k) ==
    CHOOSE i \in KeptAt(order) : Cardinality({j \in KeptAt(order) : j < i}) = k - 1
Remaining(stored, order) ==
    /\ Len(stored) = Cardinality(KeptAt(order))
    /\ \A k \in 1..Len(stored) : stored[k] = order[Nth(order, k)]
C23_OrderPurged ==
    /\ [](\A g \in GroupNames :
            \A i \in 1..Len(group_table[g].order) : group_table[g].order[i] \notin Reserved)
    /\ [][\A g \in {"G", "H"} :
            /\ \A order \in OrderInputs :
                (/\ last'.op = "Group.save" /\ last'.arg = g
                 /\ SaveGroup(g, order))
                => Remaining(group_table'[g].order, order)
            /\ (last'.op \in SaveCalls /\ last'.arg = g /\ Exists(g))
               => group_table'[g].order = group_table[g].order]_vars

\* G was saved with an order that held reserved names around H and G: what
\* is stored is H, then G
C23_Witness ==
    /\ last.op = "Group.save" /\ last.arg = "G"
    /\ group_table["G"].order = <<"H", "G">>
    /\ ~group_table["G"].fresh

----------------------------------------------------------------------------
(* C24: when a bulk replace returns without raising, the group of the      *)
(* replaced scope is fresh, whatever batch the call accepted, an empty     *)
(* batch that clears the scope included.                                   *)
C24_FreshAfterReplace ==
    \A g \in GroupNames :
        (last.op \in BulkReplaces /\ last.arg = g /\ last.err = "ok") => Fresh(g)

----------------------------------------------------------------------------
====
